---- MODULE Spec2Model ----
(***************************************************************************)
(* Model of code/benzenoid_generator.py: enumeration of benzenoid systems  *)
(* (sets of hexagons of the hexagonal lattice, in axial coordinates) up to *)
(* rotation, reflection and translation.                                   *)
(*                                                                         *)
(* A hexagon is a pair <<i, j>>; a benzenoid system is a sequence of       *)
(* hexagons (a Python list or tuple of pairs).  The pure functions of the  *)
(* module are operators with the names they have in the source; the loop   *)
(* of list_of_benzenoids is a state machine.                               *)
(*                                                                         *)
(* The source turns sets into lists (list(f), list(l_new)) and iterates    *)
(* over them.  The order of such a list is the order of CPython's hash     *)
(* table, which the program does not control.  The model therefore keeps   *)
(* of such a list its elements, and an iteration over it takes, at every   *)
(* step, any element not taken yet: every order is a behaviour.            *)
(***************************************************************************)
EXTENDS Integers, Sequences, FiniteSets

VARIABLES
    h,        \* list_of_benzenoids: the argument h
    pc,       \* list_of_benzenoids: position in the function
    i,        \* list_of_benzenoids: the round counter of `for i in range(h - 1)`
    l,        \* list_of_benzenoids: the elements of the working list l
    l_new,    \* list_of_benzenoids: the set l_new of the current round
    l_todo,   \* list_of_benzenoids: the elements of l that `for b in l` has not reached
    cur_b,    \* list_of_benzenoids: the loop variable b (<<>> outside the loop body)
    f,        \* list_of_benzenoids: the elements of the list f = layer_of_fat(b)
    f_todo,   \* list_of_benzenoids: the elements of f that `for hex in f` has not reached
    outcome,  \* list_of_benzenoids: "running", "returned" or "error"
    b,        \* symmetry runs: the system given by the caller
    img,      \* symmetry runs: the system after the transforms applied so far
    refl,     \* symmetry runs: reflection has been applied
    nrot,     \* symmetry runs: number of rotation_60 applied
    shifted,  \* symmetry runs: a translation has been applied
    dup,      \* symmetry runs: a coordinate has been listed a second time
    ncanon,   \* symmetry runs: number of to_canonical applied
    b1,       \* are_isomorphic: first argument
    b2,       \* are_isomorphic: second argument
    iso       \* are_isomorphic: "none" before the call, then "True", "False"
              \* or "ValueError"

growVars == <<h, pc, i, l, l_new, l_todo, cur_b, f, f_todo, outcome>>
symVars  == <<b, img, refl, nrot, shifted, dup, ncanon>>
isoVars  == <<b1, b2, iso>>
vars     == <<h, pc, i, l, l_new, l_todo, cur_b, f, f_todo, outcome,
              b, img, refl, nrot, shifted, dup, ncanon, b1, b2, iso>>

(***************************************************************************)
(* Bounds of the model.                                                    *)
(***************************************************************************)
\* Largest argument h of list_of_benzenoids that is explored.
MaxH == 3
\* Number of non-positive arguments h that are explored: 0, -1, ...
NonPositive == 2
\* Input systems have hexagons <<i, j>> with i in 0..1 and j in 0..MaxCoord.
MaxCoord == 2
\* Input systems have at most MaxLen hexagons.
MaxLen == 3
\* Translations move a system by MaxShift along the axes and diagonals.
MaxShift == 1

(***************************************************************************)
(* Python's ordering of pairs and of lists of pairs.                       *)
(***************************************************************************)
\* (i, j) < (k, m) on tuples of two integers.
PairLess(p, q) == p[1] < q[1] \/ (p[1] = q[1] /\ p[2] < q[2])

\* s < t on lists of pairs: the first differing position decides, and a
\* proper prefix is smaller.
RECURSIVE SeqLess(_, _)
SeqLess(s, t) ==
    IF t = <<>> THEN FALSE
    ELSE IF s = <<>> THEN TRUE
    ELSE IF Head(s) = Head(t) THEN SeqLess(Tail(s), Tail(t))
    ELSE PairLess(Head(s), Head(t))

\* Insert p into the sorted list s, after the elements equal to it.
RECURSIVE Insert(_, _)
Insert(p, s) ==
    IF s = <<>> THEN <<p>>
    ELSE IF PairLess(p, Head(s)) THEN <<p>> \o s
    ELSE <<Head(s)>> \o Insert(p, Tail(s))

\* sorted(s) for a list of pairs; repeated elements are kept.
RECURSIVE sorted(_)
sorted(s) == IF s = <<>> THEN <<>> ELSE Insert(Head(s), sorted(Tail(s)))

\* min(ls) for a non-empty list of lists of pairs: the first smallest one.
RECURSIVE MinList(_)
MinList(ls) ==
    IF Len(ls) = 1 THEN ls[1]
    ELSE LET m == MinList(Tail(ls))
         IN  IF SeqLess(m, Head(ls)) THEN m ELSE Head(ls)

\* The outcome of a call that raises ValueError.
ValueError == "ValueError"

\* min(x for x in s) for a non-empty list of integers.
RECURSIVE MinInt(_)
MinInt(s) ==
    IF Len(s) = 1 THEN s[1]
    ELSE LET m == MinInt(Tail(s))
         IN  IF m < Head(s) THEN m ELSE Head(s)

\* The set of the elements of a list.
Range(s) == {s[k] : k \in 1..Len(s)}

(***************************************************************************)
(* The pure functions of benzenoid_generator.py.                           *)
(***************************************************************************)
\* to_canonical_trans(b): subtract the smallest i and the smallest j, sort.
\* On the empty system min() raises ValueError.
to_canonical_trans(s) ==
    IF s = <<>> THEN ValueError
    ELSE LET i_min == MinInt([k \in 1..Len(s) |-> s[k][1]])
             j_min == MinInt([k \in 1..Len(s) |-> s[k][2]])
         IN  sorted([k \in 1..Len(s) |-> <<s[k][1] - i_min, s[k][2] - j_min>>])

\* A variant of rotation_60 with -j for -i.
rotation_60_minus_j(s) == [k \in 1..Len(s) |-> <<s[k][1] + s[k][2], -s[k][2]>>]

\* rotation_60(b): (i, j) -> (i + j, -i) on every hexagon.
rotation_60(s) == [k \in 1..Len(s) |-> <<s[k][1] + s[k][2], -s[k][1]>>]

\* A variant of reflection that negates i and leaves j alone, which is no
\* symmetry of the lattice.
reflection_keeps_j(s) == [k \in 1..Len(s) |-> <<-s[k][1], s[k][2]>>]

\* reflection(b): (i, j) -> (-i, i + j) on every hexagon.
reflection(s) == [k \in 1..Len(s) |-> <<-s[k][1], s[k][1] + s[k][2]>>]

\* The list built by `for i in range(n)` from a first element: every
\* further element is the normalized rotation of the last one.
RECURSIVE Rotations(_, _)
Rotations(first, n) ==
    IF n = 0 THEN <<first>>
    ELSE LET prev == Rotations(first, n - 1)
         IN  Append(prev, to_canonical_trans(rotation_60(prev[Len(prev)])))

\* A variant of to_canonical that leaves out the reflected images.
to_canonical_rotations_only(s) == MinList(Rotations(to_canonical_trans(s), 5))

\* A variant of to_canonical whose loop runs range(4): ten images.
to_canonical_range_4(s) ==
    LET ll == Rotations(to_canonical_trans(s), 4)
        rr == Rotations(to_canonical_trans(reflection(s)), 4)
    IN  MinList(<<MinList(ll), MinList(rr)>>)

\* to_canonical(b): the smallest of the 12 normalized images.  On the empty
\* system the first call of to_canonical_trans raises ValueError.
to_canonical(s) ==
    IF s = <<>> THEN ValueError
    ELSE LET ll == Rotations(to_canonical_trans(s), 5)
             rr == Rotations(to_canonical_trans(reflection(s)), 5)
         IN  MinList(<<MinList(ll), MinList(rr)>>)

\* are_isomorphic(b1, b2): TRUE or FALSE, or ValueError when to_canonical
\* raises it on one of the arguments.
are_isomorphic(s, t) ==
    IF s = <<>> \/ t = <<>> THEN ValueError
    ELSE to_canonical(s) = to_canonical(t)

\* A variant of neighbours whose last offset is (+1, +1) for (0, +1).
neighbours_diagonal(c) ==
    << <<c[1] + 1, c[2]>>, <<c[1] + 1, c[2] - 1>>, <<c[1], c[2] - 1>>,
       <<c[1] - 1, c[2]>>, <<c[1] - 1, c[2] + 1>>, <<c[1] + 1, c[2] + 1>> >>

\* neighbours(h): the six adjacent hexagons, in the order of the source.
neighbours(c) ==
    << <<c[1] + 1, c[2]>>, <<c[1] + 1, c[2] - 1>>, <<c[1], c[2] - 1>>,
       <<c[1] - 1, c[2]>>, <<c[1] - 1, c[2] + 1>>, <<c[1], c[2] + 1>> >>

\* A variant of layer_of_fat without the test `n not in b`.
layer_of_fat_keeps_members(s) == UNION {Range(neighbours(s[k])) : k \in 1..Len(s)}

\* A variant of layer_of_fat with the test `n in b` for `n not in b`.
layer_of_fat_test_inverted(s) ==
    {n \in UNION {Range(neighbours(s[k])) : k \in 1..Len(s)} : n \in Range(s)}

\* layer_of_fat(b): the hexagons adjacent to b that are not in b.  The
\* source returns list(f) for the set f; this is the set f, the elements
\* of that list.
layer_of_fat(s) ==
    {n \in UNION {Range(neighbours(s[k])) : k \in 1..Len(s)} : n \notin Range(s)}

\* A variant of Candidate that adds the grown system as it is.
Candidate_not_canonical(s, hex) == Append(s, hex)

\* The element added to l_new for the system b and the hexagon hex.
Candidate(s, hex) == to_canonical(Append(s, hex))

\* The elements of the first value of l, [((0, 0),)]: benzene.
Benzene == { << <<0, 0>> >> }

(***************************************************************************)
(* list_of_benzenoids(h) as a state machine.                               *)
(***************************************************************************)
symIdle == /\ b = <<>> /\ img = <<>> /\ refl = FALSE /\ nrot = 0
           /\ shifted = FALSE /\ dup = FALSE /\ ncanon = 0
isoIdle == b1 = <<>> /\ b2 = <<>> /\ iso = "none"
growIdle == /\ h = 0 /\ pc = "idle" /\ i = 0 /\ l = {} /\ l_new = {}
            /\ l_todo = {} /\ cur_b = <<>> /\ f = {} /\ f_todo = {}
            /\ outcome = "idle"

\* The call: l = [((0, 0),)], before the first test of the loop.
InitGrow ==
    /\ h \in (1 - NonPositive)..MaxH
    /\ pc = "for_i" /\ i = 0 /\ l = Benzene /\ l_new = {}
    /\ l_todo = {} /\ cur_b = <<>> /\ f = {} /\ f_todo = {}
    /\ outcome = "running"
    /\ symIdle /\ isoIdle

\* for i in range(h - 1): l_new = set(), and `for b in l` starts.
RoundBegin ==
    /\ pc = "for_i" /\ i < h - 1
    /\ l_new' = {} /\ l_todo' = l /\ pc' = "for_b"
    /\ UNCHANGED <<h, i, l, cur_b, f, f_todo, outcome>>
    /\ UNCHANGED symVars /\ UNCHANGED isoVars

\* for b in l: f = layer_of_fat(b), and `for hex in f` starts.  The next
\* b is any element of l not reached yet.
NextSystem ==
    /\ pc = "for_b" /\ l_todo # {}
    /\ \E s \in l_todo :
          /\ cur_b' = s /\ l_todo' = l_todo \ {s}
          /\ f' = layer_of_fat(s) /\ f_todo' = layer_of_fat(s)
    /\ pc' = "for_hex"
    /\ UNCHANGED <<h, i, l, l_new, outcome>>
    /\ UNCHANGED symVars /\ UNCHANGED isoVars

\* for hex in f: l_new.add(to_canonical(b + (hex,))).  The next hex is any
\* element of f not reached yet.
AddHexagon ==
    /\ pc = "for_hex" /\ f_todo # {}
    /\ \E hex \in f_todo :
          /\ l_new' = l_new \cup {Candidate(cur_b, hex)}
          /\ f_todo' = f_todo \ {hex}
    /\ UNCHANGED <<h, pc, i, l, l_todo, cur_b, f, outcome>>
    /\ UNCHANGED symVars /\ UNCHANGED isoVars

\* `for hex in f` is exhausted: back to `for b in l`.
SystemDone ==
    /\ pc = "for_hex" /\ f_todo = {}
    /\ pc' = "for_b"
    /\ UNCHANGED <<h, i, l, l_new, l_todo, cur_b, f, f_todo, outcome>>
    /\ UNCHANGED symVars /\ UNCHANGED isoVars

\* `for b in l` is exhausted: l = list(l_new), next round.
RoundEnd ==
    /\ pc = "for_b" /\ l_todo = {}
    /\ l' = l_new /\ i' = i + 1 /\ pc' = "for_i"
    /\ UNCHANGED <<h, l_new, l_todo, cur_b, f, f_todo, outcome>>
    /\ UNCHANGED symVars /\ UNCHANGED isoVars

\* range(h - 1) is exhausted (at once when h <= 1): return l
Return ==
    /\ pc = "for_i" /\ ~(i < h - 1)
    /\ pc' = "done" /\ outcome' = "returned"
    /\ UNCHANGED <<h, i, l, l_new, l_todo, cur_b, f, f_todo>>
    /\ UNCHANGED symVars /\ UNCHANGED isoVars

NextGrow ==
    \/ RoundBegin \/ NextSystem \/ AddHexagon
    \/ SystemDone \/ RoundEnd \/ Return

SpecGrow == InitGrow /\ [][NextGrow]_vars

(***************************************************************************)
(* Notions the properties are stated with.  They are defined on sets of    *)
(* hexagons and do not use the functions above.                            *)
(***************************************************************************)
\* Two hexagons share an edge: their axial coordinates are at distance 1.
Adjacent(p, q) ==
    LET di == p[1] - q[1]
        dj == p[2] - q[2]
    IN  /\ p # q
        /\ di \in -1..1 /\ dj \in -1..1 /\ di + dj \in -1..1

\* The hexagons of S reached from those of R through shared edges.
RECURSIVE Reach(_, _)
Reach(R, S) ==
    LET R2 == R \cup {c \in S : \E r \in R : Adjacent(r, c)}
    IN  IF R2 = R THEN R ELSE Reach(R2, S)

\* S is edge-connected.
Connected(S) == S = {} \/ Reach({CHOOSE c \in S : TRUE}, S) = S

\* The hexagons outside S that share an edge with one of S.
Border(S) ==
    {c \in UNION {{<<p[1] + di, p[2] + dj>> : di \in -1..1, dj \in -1..1} : p \in S} :
        c \notin S /\ \E p \in S : Adjacent(p, c)}

\* All edge-connected sets of k hexagons that contain <<0, 0>>.  A set is
\* edge-connected exactly when its hexagons can be listed from any one of
\* them so that each one is adjacent to an earlier one, so these are the
\* sets built from {<<0, 0>>} by adding border hexagons one at a time,
\* with no symmetry reduction.
RECURSIVE ConnectedSets(_)
ConnectedSets(k) ==
    IF k = 1 THEN {{<<0, 0>>}}
    ELSE UNION {{S \cup {c} : c \in Border(S)} : S \in ConnectedSets(k - 1)}

\* The hexagons of S listed in increasing order.
RECURSIVE ListOfCells(_)
ListOfCells(S) ==
    IF S = {} THEN <<>>
    ELSE LET m == CHOOSE x \in S : \A y \in S : x = y \/ PairLess(x, y)
         IN  <<m>> \o ListOfCells(S \ {m})

\* S moved by the vector d.
Translate(S, d) == {<<c[1] + d[1], c[2] + d[2]>> : c \in S}

\* The translation vectors of the symmetry runs.
Shifts == {<<MaxShift, 0>>, <<0, -MaxShift>>, <<-MaxShift, MaxShift>>,
           <<-MaxShift, -MaxShift>>}

\* The translations applied to the sets of ConnectedSets.
GrowShifts == {<<0, 0>>, <<-MaxShift, MaxShift>>}

(***************************************************************************)
(* Properties of list_of_benzenoids, checked under SpecGrow.               *)
(***************************************************************************)
\* C3: completeness.  When list_of_benzenoids(h) returns for h >= 1, the
\* canonical form of every edge-connected set of h hexagons (every such
\* set through <<0, 0>>, as it is and moved off the origin) is in the
\* returned list.
C3_Complete ==
    (pc = "done" /\ h >= 1) =>
        \A S \in ConnectedSets(h) : \A d \in GrowShifts :
            to_canonical(ListOfCells(Translate(S, d))) \in l

\* The call for h = 3 has returned, and the list holds the canonical form
\* of a bent chain of three hexagons that is not itself canonical.
C3_Witness ==
    /\ pc = "done" /\ h = 3
    /\ LET z == << <<0, 0>>, <<1, 0>>, <<1, 1>> >>
       IN  z \notin l /\ to_canonical(z) \in l

\* C4: when list_of_benzenoids(h) returns for h >= 1, every entry is its
\* own canonical form and no two entries at different positions are
\* isomorphic (list(l_new) holds every element of l_new once, so two
\* positions hold two different elements).
C4_EachShapeOnce ==
    (pc = "done" /\ h >= 1) =>
        /\ \A s \in l : to_canonical(s) = s
        /\ \A s, t \in l : s # t => ~are_isomorphic(s, t)

\* A returned list with several entries, one of them a system that the
\* last round reached from more than one frontier hexagon.
C4_Witness ==
    /\ pc = "done" /\ h >= 3 /\ Cardinality(l) >= 3
    /\ << <<0, 0>>, <<0, 1>>, <<1, 0>> >> \in l

\* C5: after the k-th growth round every system of the working list has
\* exactly k + 1 pairwise distinct hexagons (so do the systems collected
\* for the next list, with one more), and a returned system has exactly h.
C5_ExactlyHCells ==
    /\ \A s \in l : Len(s) = i + 1 /\ Cardinality(Range(s)) = i + 1
    /\ pc \in {"for_b", "for_hex"} =>
          \A s \in l_new : Len(s) = i + 2 /\ Cardinality(Range(s)) = i + 2
    /\ (pc = "done" /\ h >= 1) =>
          \A s \in l : Len(s) = h /\ Cardinality(Range(s)) = h

\* Two growth rounds are over and the working list holds systems of 3.
C5_Witness == pc = "for_i" /\ i = 2 /\ h > 2 /\ Cardinality(l) > 1

\* C6: list_of_benzenoids(1) is the single system ((0, 0),),
\* list_of_benzenoids(2) has 1 system and list_of_benzenoids(3) has 3.
C6_SmallCounts ==
    pc = "done" =>
        /\ h = 1 => l = Benzene
        /\ h = 2 => Cardinality(l) = 1
        /\ h = 3 => Cardinality(l) = 3

\* The call for h = 3 has returned the three systems of three hexagons.
C6_Witness ==
    /\ pc = "done" /\ h = 3
    /\ l = { << <<0, 0>>, <<0, 1>>, <<0, 2>> >>,
             << <<0, 0>>, <<0, 1>>, <<1, 0>> >>,
             << <<0, 0>>, <<0, 1>>, <<1, 1>> >> }

\* C8: for h <= 0 list_of_benzenoids(h) ends with an error and returns no
\* list.
C8_RejectsNonPositive ==
    (h <= 0 /\ pc = "done") => outcome = "error"

\* C10: every system of the working list, of the set collected for the
\* next list, and of the returned list is edge-connected.
C10_Connected ==
    /\ \A s \in l : Connected(Range(s))
    /\ \A s \in l_new : Connected(Range(s))

\* The second round is growing the system of two hexagons and has
\* collected a bent system: canonicalization has moved the hexagons.
C10_Witness ==
    /\ pc = "for_hex" /\ i = 1
    /\ cur_b = << <<0, 0>>, <<0, 1>> >>
    /\ << <<0, 0>>, <<0, 1>>, <<1, 1>> >> \in l_new

(***************************************************************************)
(* Callers of the pure functions.  A symmetry run takes a system b, moves  *)
(* it by a reflection, rotations and a translation (or lists one of its    *)
(* hexagons a second time) and calls to_canonical on what it got.          *)
(***************************************************************************)
\* The hexagons of the input systems.
Cells == (0..1) \X (0..MaxCoord)

\* The non-empty sets of at most MaxLen hexagons of Cells.
CellSets == {S \in SUBSET Cells : S # {} /\ Cardinality(S) <= MaxLen}

\* The reverse of a list.
RECURSIVE Reverse(_)
Reverse(s) == IF s = <<>> THEN <<>> ELSE Append(Reverse(Tail(s)), Head(s))

\* The input systems: every set of CellSets, listed in increasing and in
\* decreasing order (the transforms below leave neither order in place).
Systems ==
    {ListOfCells(S) : S \in CellSets} \cup {Reverse(ListOfCells(S)) : S \in CellSets}

\* The list s with every hexagon moved by the vector d.
ShiftSystem(s, d) == [k \in 1..Len(s) |-> <<s[k][1] + d[1], s[k][2] + d[2]>>]

InitSym ==
    /\ b \in Systems /\ img = b
    /\ refl = FALSE /\ nrot = 0 /\ shifted = FALSE /\ dup = FALSE /\ ncanon = 0
    /\ growIdle /\ isoIdle

\* img = reflection(img), before any rotation.
Reflect ==
    /\ b # <<>> /\ ~refl /\ nrot = 0 /\ ~shifted /\ ~dup /\ ncanon = 0
    /\ img' = reflection(img) /\ refl' = TRUE
    /\ UNCHANGED <<b, nrot, shifted, dup, ncanon>>
    /\ UNCHANGED growVars /\ UNCHANGED isoVars

\* img = rotation_60(img), at most five times.
Rotate ==
    /\ b # <<>> /\ nrot < 5 /\ ~shifted /\ ~dup /\ ncanon = 0
    /\ img' = rotation_60(img) /\ nrot' = nrot + 1
    /\ UNCHANGED <<b, refl, shifted, dup, ncanon>>
    /\ UNCHANGED growVars /\ UNCHANGED isoVars

\* The transformed system is moved by a vector.
Shift ==
    /\ b # <<>> /\ ~shifted /\ ~dup /\ ncanon = 0
    /\ \E d \in Shifts : img' = ShiftSystem(img, d)
    /\ shifted' = TRUE
    /\ UNCHANGED <<b, refl, nrot, dup, ncanon>>
    /\ UNCHANGED growVars /\ UNCHANGED isoVars

\* A hexagon of b is listed a second time.
Duplicate ==
    /\ b # <<>> /\ ~refl /\ nrot = 0 /\ ~shifted /\ ~dup /\ ncanon = 0
    /\ \E k \in 1..Len(img) : img' = Append(img, img[k])
    /\ dup' = TRUE
    /\ UNCHANGED <<b, refl, nrot, shifted, ncanon>>
    /\ UNCHANGED growVars /\ UNCHANGED isoVars

\* img = to_canonical(img)
Canonicalize ==
    /\ b # <<>> /\ ncanon < 1
    /\ img' = to_canonical(img) /\ ncanon' = ncanon + 1
    /\ UNCHANGED <<b, refl, nrot, shifted, dup>>
    /\ UNCHANGED growVars /\ UNCHANGED isoVars

NextSym == Reflect \/ Rotate \/ Shift \/ Duplicate \/ Canonicalize

SpecSym == InitSym /\ [][NextSym]_vars

(***************************************************************************)
(* Properties of to_canonical, checked under SpecSym.                      *)
(***************************************************************************)
\* C1: the system obtained from a system b of distinct hexagons by an
\* optional reflection, k rotations by 60 degrees and a translation has
\* the canonical form of b.
C1_SymmetryInvariant ==
    (b # <<>> /\ ~dup) => to_canonical(img) = to_canonical(b)

\* A system of three hexagons was reflected, rotated twice and moved, and
\* is no longer the list the caller gave nor its normalized form.
C1_Witness ==
    /\ Len(b) = 3 /\ refl /\ nrot = 2 /\ shifted /\ ~dup /\ ncanon = 0
    /\ to_canonical_trans(img) # to_canonical_trans(b)

\* C7: listing a hexagon of b a second time changes neither the canonical
\* form nor the answer of are_isomorphic.
C7_DuplicateIgnored ==
    (dup /\ ncanon = 0) =>
        /\ to_canonical(img) = to_canonical(b)
        /\ are_isomorphic(img, b)

\* C9: the result of to_canonical is its own canonical form.
C9_Idempotent ==
    (ncanon = 1 /\ ~dup) => to_canonical(img) = img

\* to_canonical has been applied to a moved system of three hexagons and
\* returned a list different from its argument's normalized form.
C9_Witness ==
    /\ ncanon = 1 /\ ~dup /\ Len(b) = 3 /\ nrot = 1
    /\ img # to_canonical_trans(b)

(***************************************************************************)
(* A caller of are_isomorphic on two independent systems.                  *)
(***************************************************************************)
\* The first argument lists its hexagons in increasing order, the second
\* in decreasing order; either may be the empty system.
InitIso ==
    /\ b1 \in {ListOfCells(S) : S \in CellSets} \cup {<<>>}
    /\ b2 \in {Reverse(ListOfCells(S)) : S \in CellSets} \cup {<<>>}
    /\ iso = "none"
    /\ growIdle /\ symIdle

\* iso = are_isomorphic(b1, b2), or the exception it raises.
Compare ==
    /\ iso = "none"
    /\ iso' = IF b1 = <<>> \/ b2 = <<>> THEN are_isomorphic(b1, b2)
              ELSE IF are_isomorphic(b1, b2) THEN "True" ELSE "False"
    /\ UNCHANGED <<b1, b2>>
    /\ UNCHANGED growVars /\ UNCHANGED symVars

NextIso == Compare

SpecIso == InitIso /\ [][NextIso]_vars

\* The cube coordinates <<x, y, z>>, x + y + z = 0, of a hexagon.
Cube(c) == <<c[1], c[2], -c[1] - c[2]>>

\* The twelve symmetries of the lattice that fix <<0, 0>>: the six
\* permutations of the cube coordinates, each with or without a change of
\* sign.
LatticeSymmetries ==
    {g \in [perm : [1..3 -> 1..3], sign : {-1, 1}] :
        \A x, y \in 1..3 : x # y => g.perm[x] # g.perm[y]}

\* The image of the hexagon c under the symmetry g, in axial coordinates.
Apply(g, c) == <<g.sign * Cube(c)[g.perm[1]], g.sign * Cube(c)[g.perm[2]]>>

\* T is the image of S under a lattice symmetry followed by a translation.
SameShape(S, T) ==
    \E g \in LatticeSymmetries :
        LET GS == {Apply(g, c) : c \in S}
            c0 == CHOOSE c \in GS : TRUE
        IN  \E t \in T : Translate(GS, <<t[1] - c0[1], t[2] - c0[2]>>) = T

\* C2: when are_isomorphic(b1, b2) answers True, the hexagons of b2 are
\* the image of those of b1 under one of the twelve lattice symmetries
\* followed by a translation.
C2_EqualFormsSameShape ==
    iso = "True" => SameShape(Range(b1), Range(b2))

\* are_isomorphic answered True for two systems of three hexagons that are
\* not translates of each other.
C2_Witness ==
    /\ iso = "True" /\ Len(b1) = 3
    /\ to_canonical_trans(b1) # to_canonical_trans(b2)

====
